---- MODULE Spec2Model ----
(***************************************************************************)
(* A model of boggle.py: the Board (letters, adjacency, the word search    *)
(* find_words), the Player (score_word) and the Boggle game (the guess     *)
(* loop of start, the timer's stop, display, format_words, endgame).       *)
(*                                                                         *)
(* Strings are sequences of one-character strings, so that slicing,        *)
(* concatenation and length are what Python's are.  A cell of the board    *)
(* holds a string of one character, or the two characters "QU".  Cells     *)
(* are numbered from 0 as in the code: letters and adjacency are functions *)
(* on 0..size*size-1.                                                      *)
(***************************************************************************)
EXTENDS Integers, Sequences, FiniteSets, TLC

VARIABLES
  size,          \* Board.size
  letters,       \* Board.letters: cell index -> string
  adjacency,     \* Board.adjacency: cell index -> list of cell indices
  adj_i,         \* _init_adjacency: the loop variable i (the next cell)
  lines,         \* the lines of the words file given to load_words
  min_len,       \* load_words' min_len
  words,         \* the list find_words is given
  prefixes,      \* find_words' local set prefixes
  found,         \* find_words' local list found
  start,         \* find_words' loop variable i: the next starting cell
  stack,         \* the frames of _advance_path, innermost first
  call,          \* the arguments of the latest call of _advance_path
  found_words,   \* Board.found_words
  pc,            \* where the construction of the board and game stands
  score,         \* Player.score
  player_found,  \* Player.found_words
  message,       \* Player.message
  in_play,       \* Boggle.in_play
  guess,         \* start's local guess
  timer,         \* Boggle.timer: "new", "running" or "fired"
  mpc,           \* where the main thread stands in start
  late_reads     \* how many input() calls returned after stop() ran

\* The board as constructed and the words file: no step of the search or of
\* the game assigns them.
inputVars == <<size, letters, lines, min_len>>

searchVars == <<words, prefixes, found, start, stack, call, found_words>>

gameVars == <<score, player_found, message, in_play, guess, timer, mpc,
              late_reads>>

vars == <<inputVars, adjacency, adj_i, searchVars, pc, gameVars>>

-----------------------------------------------------------------------------
(* Strings *)

Str1(c) == <<c>>

\* Board._vowels
Vowels == {Str1("A"), Str1("E"), Str1("I"), Str1("O"), Str1("U")}

\* Board._consonants, the entry 'Q' replaced by 'QU'
Consonants ==
  {Str1(c) : c \in {"B","C","D","F","G","H","J","K","L","M","N","P",
                    "R","S","T","V","W","X","Y","Z"}} \cup {<<"Q","U">>}

\* The elements of a list.
Range(xs) == {xs[n] : n \in DOMAIN xs}

\* Python's `x in xs` for a list xs
InList(x, xs) == \E n \in DOMAIN xs : xs[n] = x

-----------------------------------------------------------------------------
(* Board._init_adjacency *)

\* AdjOf with the tests on the column of the left and right neighbours left
\* out: the list wraps around the ends of the rows.
AdjOfWrapping(i, N) ==
  LET x == i \div N
      y == i % N
      up    == IF x > 0
               THEN <<i - N>>
                    \o (IF y > 0 THEN <<i - N - 1>> ELSE <<>>)
                    \o (IF y < N - 1 THEN <<i - N + 1>> ELSE <<>>)
               ELSE <<>>
      down  == IF x < N - 1
               THEN <<i + N>>
                    \o (IF y > 0 THEN <<i + N - 1>> ELSE <<>>)
                    \o (IF y < N - 1 THEN <<i + N + 1>> ELSE <<>>)
               ELSE <<>>
      left  == IF i > 0 THEN <<i - 1>> ELSE <<>>
      right == IF i < N * N - 1 THEN <<i + 1>> ELSE <<>>
  IN up \o down \o left \o right

\* The body of the loop for one cell i of a board of size N: the list adj in
\* the order of the appends.
AdjOf(i, N) ==
  LET x == i \div N
      y == i % N
      up    == IF x > 0
               THEN <<i - N>>
                    \o (IF y > 0 THEN <<i - N - 1>> ELSE <<>>)
                    \o (IF y < N - 1 THEN <<i - N + 1>> ELSE <<>>)
               ELSE <<>>
      down  == IF x < N - 1
               THEN <<i + N>>
                    \o (IF y > 0 THEN <<i + N - 1>> ELSE <<>>)
                    \o (IF y < N - 1 THEN <<i + N + 1>> ELSE <<>>)
               ELSE <<>>
      left  == IF y > 0 THEN <<i - 1>> ELSE <<>>
      right == IF y < N - 1 THEN <<i + 1>> ELSE <<>>
  IN up \o down \o left \o right

\* The whole mapping, as _init_adjacency returns it.
InitAdjacency(N) == [i \in 0..(N * N - 1) |-> AdjOf(i, N)]

\* line 221-247: one iteration of the loop: the list of cell adj_i is built.
AdjStep ==
  /\ pc = "adjacency"
  /\ adj_i < size * size
  /\ adjacency' = [i \in 0..adj_i |-> IF i = adj_i THEN AdjOf(i, size)
                                                  ELSE adjacency[i]]
  /\ adj_i' = adj_i + 1
  /\ UNCHANGED <<inputVars, searchVars, pc, gameVars>>

\* line 248 and 135: the loop is over, the mapping is Board.adjacency.
AdjReturn ==
  /\ pc = "adjacency"
  /\ adj_i = size * size
  /\ pc' = "built"
  /\ UNCHANGED <<inputVars, adjacency, adj_i, searchVars, gameVars>>

NextAdj == AdjStep \/ AdjReturn

-----------------------------------------------------------------------------
(* Board.find_words *)

\* Prefixes with range(1, len(w) + 1): every word is in the set too.
PrefixesInclusive(ws) ==
  UNION {{SubSeq(ws[n], 1, i) : i \in 1..Len(ws[n])} : n \in DOMAIN ws}

\* prefixes = {w[:i] for w in words for i in range(1, len(w))}
Prefixes(ws) ==
  UNION {{SubSeq(ws[n], 1, i) : i \in 1..(Len(ws[n]) - 1)} : n \in DOMAIN ws}

\* A frame of _advance_path: its arguments prefix and path, and k, the
\* position in adjacency[path[-1]] that its for loop examines next (1 is the
\* first neighbour).  A call that does not enter the loop returns at once and
\* leaves no frame.
Frame(prefix, path, k) == [prefix |-> prefix, path |-> path, k |-> k]

\* No call of _advance_path has been made yet.
NoCall == Frame(<<>>, <<>>, 0)

\* path[-1]
Last(path) == path[Len(path)]

\* line 288-290: if prefix in words: found.append(prefix)
Record(fnd, prefix, ws) == IF InList(prefix, ws) THEN Append(fnd, prefix) ELSE fnd

\* MayAdvance as the elif of the test of line 288: a word is never extended.
MayAdvanceElif(prefix, pfx) == prefix \in pfx /\ ~InList(prefix, words)

\* line 291: if prefix in prefixes
MayAdvance(prefix, pfx) == prefix \in pfx

\* NotInPath without the test: every neighbour extends the path.
NotInPathOff(j, path) == TRUE

\* line 295: if j not in path
NotInPath(j, path) == ~InList(j, path)

\* line 283-292: _advance_path(prefix, path) is called from below the frames
\* rest: the prefix is recorded if it is a word, and the call stays, in its
\* loop, if it is a prefix, else it has returned.
Enter(prefix, path, rest) ==
  /\ call' = Frame(prefix, path, 0)
  /\ found' = Record(found, prefix, words)
  /\ stack' = IF MayAdvance(prefix, prefixes)
               THEN <<Frame(prefix, path, 1)>> \o rest
               ELSE rest

\* line 279-281: the prefix set is built, found is the empty list.
BuildPrefixes ==
  /\ pc = "find"
  /\ prefixes' = Prefixes(words)
  /\ found' = <<>>
  /\ start' = 0
  /\ pc' = "search"
  /\ UNCHANGED <<inputVars, adjacency, adj_i, words, stack, call, found_words,
                 gameVars>>

\* line 299-306: the loop over the cells calls _advance_path(letter, [i]).
StartPath ==
  /\ pc = "search"
  /\ stack = <<>>
  /\ start < size * size
  /\ Enter(letters[start], <<start>>, <<>>)
  /\ start' = start + 1
  /\ UNCHANGED <<inputVars, adjacency, adj_i, words, prefixes, found_words, pc,
                 gameVars>>

\* line 293-297: one iteration of the loop over the neighbours of the last
\* cell: a neighbour not yet in the path is the next recursive call.
Extend ==
  /\ pc = "search"
  /\ stack # <<>>
  /\ LET f   == Head(stack)
          adj == adjacency[Last(f.path)]
     IN /\ f.k <= Len(adj)
        /\ LET j    == adj[f.k]
               here == <<Frame(f.prefix, f.path, f.k + 1)>> \o Tail(stack)
           IN IF NotInPath(j, f.path)
              THEN Enter(f.prefix \o letters[j], Append(f.path, j), here)
              ELSE /\ stack' = here
                   /\ UNCHANGED <<found, call>>
  /\ UNCHANGED <<inputVars, adjacency, adj_i, words, prefixes, start,
                 found_words, pc, gameVars>>

\* line 293: the loop is exhausted: _advance_path returns.
Return ==
  /\ pc = "search"
  /\ stack # <<>>
  /\ Head(stack).k > Len(adjacency[Last(Head(stack).path)])
  /\ stack' = Tail(stack)
  /\ UNCHANGED <<inputVars, adjacency, adj_i, words, prefixes, found, start,
                 call, found_words, pc, gameVars>>

\* line 307: self.found_words = found
Finish ==
  /\ pc = "search"
  /\ stack = <<>>
  /\ start = size * size
  /\ found_words' = found
  /\ pc' = "done"
  /\ UNCHANGED <<inputVars, adjacency, adj_i, words, prefixes, found, start,
                 stack, call, gameVars>>

NextFind == BuildPrefixes \/ StartPath \/ Extend \/ Return \/ Finish

-----------------------------------------------------------------------------
(* Boggle.load_words *)

LowerCase == <<"a","b","c","d","e","f","g","h","i","j","k","l","m",
               "n","o","p","q","r","s","t","u","v","w","x","y","z">>

UpperCase == <<"A","B","C","D","E","F","G","H","I","J","K","L","M",
               "N","O","P","Q","R","S","T","U","V","W","X","Y","Z">>

\* The characters str.rstrip() removes, as far as the model has them.
Whitespace == {" ", "\n"}

\* str.upper(): a lower-case letter becomes its capital, the rest stays.
UpperChar(c) ==
  IF \E n \in DOMAIN LowerCase : LowerCase[n] = c
  THEN UpperCase[CHOOSE n \in DOMAIN LowerCase : LowerCase[n] = c]
  ELSE c

Upper(str) == [n \in DOMAIN str |-> UpperChar(str[n])]

RECURSIVE RStrip(_)
\* str.rstrip(): the string without its trailing whitespace.
RStrip(str) ==
  IF str # <<>> /\ str[Len(str)] \in Whitespace
  THEN RStrip(SubSeq(str, 1, Len(str) - 1))
  ELSE str

\* Keeps with the test on the length left out.
KeepsAll(word, m) == TRUE

\* line 430: if len(word) >= min_len
Keeps(word, m) == Len(word) >= m

RECURSIVE Load(_, _)
\* line 426-433: the words that the lines yield, in the order of the lines.
Load(ls, m) ==
  IF ls = <<>> THEN <<>>
  ELSE LET word == Upper(RStrip(Head(ls)))
       IN (IF Keeps(word, m) THEN <<word>> ELSE <<>>) \o Load(Tail(ls), m)

\* line 398 (and 421-441): words = self.load_words(words_file)
LoadWords ==
  /\ pc = "load"
  /\ words' = Load(lines, min_len)
  /\ pc' = "find"
  /\ UNCHANGED <<inputVars, adjacency, adj_i, prefixes, found, start, stack,
                 call, found_words, gameVars>>

NextLoad == LoadWords \/ NextFind

-----------------------------------------------------------------------------
(* Player.score_word, Boggle.find_score, format_words, display, endgame,     *)
(* start and stop                                                          *)

\* The value None.
None == <<"None">>

\* The messages score_word leaves for display.
AlreadyMessage == <<"You have already entered this word, please try again!">>
InvalidMessage == <<"Invalid word, try again!">>

\* Boggle._points
Points == (3 :> 1) @@ (4 :> 2) @@ (5 :> 4) @@ (6 :> 6) @@ (7 :> 9) @@ (8 :> 15)

\* cls._points[len(w)] is there for every w of ws: else the lookup raises
\* KeyError.
HasPoints(ws) == \A n \in DOMAIN ws : Len(ws[n]) \in DOMAIN Points

RECURSIVE FindScore(_)
\* line 416-419: the sum of the points of the words of a list.
FindScore(ws) ==
  IF ws = <<>> THEN 0 ELSE Points[Len(Head(ws))] + FindScore(Tail(ws))

\* The place of a capital letter in the alphabet.
Ord(c) == CHOOSE n \in DOMAIN UpperCase : UpperCase[n] = c

\* A string of capital letters in small letters.
Lower(str) == [n \in DOMAIN str |-> LowerCase[Ord(str[n])]]

RECURSIVE StrLess(_, _)
\* a < b for strings of capital letters.
StrLess(a, b) ==
  IF b = <<>> THEN FALSE
  ELSE IF a = <<>> THEN TRUE
  ELSE IF Head(a) # Head(b) THEN Ord(Head(a)) < Ord(Head(b))
  ELSE StrLess(Tail(a), Tail(b))

RECURSIVE Insert(_, _)
Insert(w, sorted) ==
  IF sorted = <<>> THEN <<w>>
  ELSE IF StrLess(Head(sorted), w) THEN <<Head(sorted)>> \o Insert(w, Tail(sorted))
  ELSE <<w>> \o sorted

RECURSIVE SortWords(_)
\* line 456: words.sort(), the list afterwards.
SortWords(ws) == IF ws = <<>> THEN <<>> ELSE Insert(Head(ws), SortWords(Tail(ws)))

\* AfterEndgame with missed_words the list board.found_words itself:
\* format_words sorts it.
AfterEndgameAliased(fw) == SortWords(fw)

\* line 512-517: missed_words is a new list, and format_words sorts that one:
\* board.found_words after endgame.
AfterEndgame(fw) == fw

\* StillPlaying as `while True`.
StillPlayingEver(ip) == TRUE

\* line 527: while self.in_play
StillPlaying(ip) == ip

\* What the player may type: a word of the words file in small letters, or
\* nothing.
RawGuesses == {Lower(Upper(RStrip(l))) : l \in Range(lines)} \cup {<<>>}

\* line 523-526: start sets in_play, starts the timer, and has no guess yet.
Start ==
  /\ pc = "done"
  /\ mpc = "init"
  /\ in_play' = TRUE
  /\ timer' = "running"
  /\ guess' = None
  /\ mpc' = "while"
  /\ UNCHANGED <<inputVars, adjacency, adj_i, searchVars, pc, score,
                 player_found, message, late_reads>>

\* line 527: the test of the loop; line 532 follows when it fails.
LoopTest ==
  /\ mpc = "while"
  /\ mpc' = IF StillPlaying(in_play) THEN "score" ELSE "endgame"
  /\ UNCHANGED <<inputVars, adjacency, adj_i, searchVars, pc, score,
                 player_found, message, in_play, guess, timer, late_reads>>

\* line 528 and 343-354: self.player.score_word(guess, self.board.found_words).
\* find_score raises KeyError, out of start, for a length _points does not
\* have.
ScoreWord ==
  /\ mpc = "score"
  /\ IF InList(guess, found_words) /\ ~InList(guess, player_found)
     THEN IF HasPoints(<<guess>>)
          THEN /\ score' = score + FindScore(<<guess>>)
               /\ player_found' = Append(player_found, guess)
               /\ mpc' = "display"
               /\ UNCHANGED message
          ELSE /\ mpc' = "raised"
               /\ UNCHANGED <<score, player_found, message>>
     ELSE /\ message' = IF InList(guess, player_found) THEN AlreadyMessage
                        ELSE IF guess # None THEN InvalidMessage
                        ELSE message
          /\ mpc' = "display"
          /\ UNCHANGED <<score, player_found>>
  /\ UNCHANGED <<inputVars, adjacency, adj_i, searchVars, pc, in_play, guess,
                 timer, late_reads>>

\* line 529 and 477-493: display formats (and so sorts) the player's words
\* and clears the message.
Display ==
  /\ mpc = "display"
  /\ IF HasPoints(player_found)
     THEN /\ player_found' = SortWords(player_found)
          /\ message' = None
          /\ mpc' = "input"
     ELSE /\ mpc' = "raised"
          /\ UNCHANGED <<player_found, message>>
  /\ UNCHANGED <<inputVars, adjacency, adj_i, searchVars, pc, score, in_play,
                 guess, timer, late_reads>>

\* line 530: guess = input('Enter word: ').upper()
Input ==
  /\ mpc = "input"
  /\ \E raw \in RawGuesses : guess' = Upper(raw)
  /\ late_reads' = IF timer = "fired" THEN late_reads + 1 ELSE late_reads
  /\ mpc' = "while"
  /\ UNCHANGED <<inputVars, adjacency, adj_i, searchVars, pc, score,
                 player_found, message, in_play, timer>>

\* line 532 and 495-517: endgame.  find_score(self.board.found_words) raises
\* KeyError for a length _points does not have, the division raises
\* ZeroDivisionError for a total of 0; else the player's words are sorted.
Endgame ==
  /\ mpc = "endgame"
  /\ IF HasPoints(found_words) /\ FindScore(found_words) # 0
     THEN /\ player_found' = SortWords(player_found)
          /\ found_words' = AfterEndgame(found_words)
          /\ mpc' = "over"
     ELSE /\ mpc' = "raised"
          /\ UNCHANGED <<player_found, found_words>>
  /\ UNCHANGED <<inputVars, adjacency, adj_i, words, prefixes, found, start,
                 stack, call, pc, score, message, in_play, guess, timer,
                 late_reads>>

\* line 534-539: the timer's thread calls stop, at any time after
\* timer.start() while the main thread runs.
Stop ==
  /\ timer = "running"
  /\ mpc \notin {"over", "raised"}
  /\ in_play' = FALSE
  /\ timer' = "fired"
  /\ UNCHANGED <<inputVars, adjacency, adj_i, searchVars, pc, score,
                 player_found, message, guess, mpc, late_reads>>

NextGame ==
  LoadWords \/ NextFind \/ Start \/ LoopTest \/ ScoreWord \/ Display \/ Input
    \/ Endgame \/ Stop

-----------------------------------------------------------------------------
(* The boards and word lists the search is checked on *)

\* The letters the cells are drawn from: a one-character cell and 'QU'.
BoardLetters == {Str1("A"), <<"Q","U">>}

\* The sizes N of the boards.
GridSizes == {1, 2, 3}

\* A board has at most MaxMarked cells 'A' among its cells 'QU'.
MaxMarked == 2

\* Words have at most MaxWordLen characters, lists at most MaxWords words.
MaxWordLen == 3
MaxWords == 2

Cells(N) == 0..(N * N - 1)

Boards(N) ==
  {b \in [Cells(N) -> BoardLetters] :
     Cardinality({i \in Cells(N) : b[i] = Str1("A")}) <= MaxMarked}

RECURSIVE CellStrings(_)
\* The strings that n cells spell.
CellStrings(n) ==
  IF n = 0 THEN {<<>>}
  ELSE {w \o l : w \in CellStrings(n - 1), l \in BoardLetters}

WordUniverse ==
  {w \in UNION {CellStrings(n) : n \in 1..MaxWordLen} : Len(w) <= MaxWordLen}

RECURSIVE ListOf(_)
\* A list of the elements of S, each once.
ListOf(S) ==
  IF S = {} THEN <<>>
  ELSE LET x == CHOOSE y \in S : TRUE IN <<x>> \o ListOf(S \ {x})

\* The word lists: a list of at most MaxWords different words of U.
WordListsOf(U) == {ListOf(S) : S \in {T \in SUBSET U : Cardinality(T) <= MaxWords}}

\* No game has been started: a new Player, the timer not started.
NoGame ==
  /\ score = 0
  /\ player_found = <<>>
  /\ message = None
  /\ in_play = FALSE
  /\ guess = None
  /\ timer = "new"
  /\ mpc = "init"
  /\ late_reads = 0

\* Board(letters=...) has been constructed and find_words(words) is called.
InitFind ==
  /\ size \in GridSizes
  /\ letters \in Boards(size)
  /\ adjacency = InitAdjacency(size)
  /\ adj_i = size * size
  /\ lines = <<>>
  /\ min_len = 0
  /\ words \in WordListsOf(WordUniverse)
  /\ prefixes = {}
  /\ found = <<>>
  /\ start = 0
  /\ stack = <<>>
  /\ call = NoCall
  /\ found_words = <<>>
  /\ pc = "find"
  /\ NoGame

SpecFind == InitFind /\ [][NextFind]_vars

\* The boards of the deep searches have sizes 1 and 2, any letters, and
\* lists of the words l, ll, lll, ... of up to MaxRepeat cells: with more
\* cells than the board has, the prefixes let every path be extended.
DeepSizes == {1, 2}

MaxRepeat == 5

RECURSIVE Repeat(_, _)
Repeat(l, n) == IF n = 0 THEN <<>> ELSE l \o Repeat(l, n - 1)

DeepUniverse == {Repeat(l, n) : l \in BoardLetters, n \in 1..MaxRepeat}

InitDeep ==
  /\ size \in DeepSizes
  /\ letters \in [Cells(size) -> BoardLetters]
  /\ adjacency = InitAdjacency(size)
  /\ adj_i = size * size
  /\ lines = <<>>
  /\ min_len = 0
  /\ words \in WordListsOf(DeepUniverse)
  /\ prefixes = {}
  /\ found = <<>>
  /\ start = 0
  /\ stack = <<>>
  /\ call = NoCall
  /\ found_words = <<>>
  /\ pc = "find"
  /\ NoGame

\* find_words is sequential code: a step that can be taken is taken.
SpecDeep == InitDeep /\ [][NextFind]_vars /\ WF_vars(NextFind)

\* load_words is given a minimum length of 1 to MaxMinLen.
MaxMinLen == 3

\* The lines of a words file for a board of the letter l: the words l, ll,
\* ... of up to MaxWordLen cells, in capitals or in small letters with a
\* blank, and the end of the line.
RawLinesOf(l) ==
  UNION {{Repeat(l, n) \o <<"\n">>, Lower(Repeat(l, n)) \o <<" ", "\n">>} :
           n \in 1..MaxWordLen}

\* A board of size 1 or 2 with one of the letters of Board._vowels and
\* Board._consonants in all its cells has been constructed, and the words
\* file is about to be loaded and searched.
InitLoad ==
  /\ size \in DeepSizes
  /\ \E l \in Vowels \cup Consonants :
        /\ letters = [i \in Cells(size) |-> l]
        /\ lines \in WordListsOf(RawLinesOf(l))
  /\ adjacency = InitAdjacency(size)
  /\ adj_i = size * size
  /\ min_len \in 1..MaxMinLen
  /\ words = <<>>
  /\ prefixes = {}
  /\ found = <<>>
  /\ start = 0
  /\ stack = <<>>
  /\ call = NoCall
  /\ found_words = <<>>
  /\ pc = "load"
  /\ NoGame

SpecLoad == InitLoad /\ [][NextLoad]_vars

\* line 422: min_len: int=3
DefaultMinLen == 3

\* A string, written as it reads, as the list of its characters.
Chars(str) ==
  CASE str = "SOMHTEING" -> <<"S","O","M","H","T","E","I","N","G">>
    [] str = "CATS" -> <<"C","A","T","S">>
    [] str = "something" -> <<"s","o","m","e","t","h","i","n","g">>
    [] str = "some" -> <<"s","o","m","e">>
    [] str = "met" -> <<"m","e","t">>
    [] str = "hot" -> <<"h","o","t">>
    [] str = "ten" -> <<"t","e","n">>
    [] str = "CAT" -> <<"C","A","T">>
    [] str = "ACT" -> <<"A","C","T">>
    [] str = "CAST" -> <<"C","A","S","T">>
    [] str = "AT" -> <<"A","T">>
    [] str = "DOG" -> <<"D","O","G">>

\* The file of the words, one on a line.
FileOf(strs) == [n \in DOMAIN strs |-> Chars(strs[n]) \o <<"\n">>]

\* The games: the letters of the board, row by row, and the words file.
\* SOMETHING runs through all nine cells of the first board; the second is
\* the board C A / T S.
Games ==
  {[letters |-> Chars("SOMHTEING"),
    file |-> FileOf(<<"something", "some", "met", "hot", "ten">>)],
   [letters |-> Chars("CATS"),
    file |-> FileOf(<<"CAT", "CATS", "AT", "DOG", "ACT", "CAST">>)]}

\* Boggle(player, board) is being constructed: Player() and
\* Board(letters=...) are, the timer is made, the words file is about to be
\* loaded and searched.
InitGame ==
  /\ \E g \in Games :
        /\ size \in GridSizes
        /\ size * size = Len(g.letters)
        /\ letters = [i \in Cells(size) |-> Str1(g.letters[i + 1])]
        /\ \A i \in Cells(size) : letters[i] \in Vowels \cup Consonants
        /\ lines = g.file
  /\ adjacency = InitAdjacency(size)
  /\ adj_i = size * size
  /\ min_len = DefaultMinLen
  /\ words = <<>>
  /\ prefixes = {}
  /\ found = <<>>
  /\ start = 0
  /\ stack = <<>>
  /\ call = NoCall
  /\ found_words = <<>>
  /\ pc = "load"
  /\ NoGame

SpecGame == InitGame /\ [][NextGame]_vars

\* The boards whose adjacency is built have sizes up to MaxAdjSize.
MaxAdjSize == 7

\* Board(size=N) has drawn its letters and calls _init_adjacency.
InitAdj ==
  /\ size \in 1..MaxAdjSize
  /\ letters = [i \in Cells(size) |-> Str1("A")]
  /\ adjacency = <<>>
  /\ adj_i = 0
  /\ lines = <<>>
  /\ min_len = 0
  /\ words = <<>>
  /\ prefixes = {}
  /\ found = <<>>
  /\ start = 0
  /\ stack = <<>>
  /\ call = NoCall
  /\ found_words = <<>>
  /\ pc = "adjacency"
  /\ NoGame

SpecAdj == InitAdj /\ [][NextAdj]_vars

-----------------------------------------------------------------------------
(* What the search is to find *)

\* s starts with the string l.
StartsWith(s, l) == Len(l) <= Len(s) /\ SubSeq(s, 1, Len(l)) = l

\* s without its first n characters.
Drop(s, n) == SubSeq(s, n + 1, Len(s))

RECURSIVE Spells(_, _, _)
\* The string rest is spelled by cells that continue a path ending in cell
\* last: each next cell is adjacent to the one before and, when simple is
\* TRUE, is none of the cells used so far.
Spells(rest, last, used) ==
  \/ rest = <<>>
  \/ \E j \in Range(adjacency[last]) \ used.cells :
        /\ StartsWith(rest, letters[j])
        /\ Spells(Drop(rest, Len(letters[j])), j,
                  [used EXCEPT !.cells = IF used.simple THEN @ \cup {j} ELSE @])

\* w is the concatenation of the letters of a path of pairwise-distinct
\* cells, each consecutive pair adjacent.
Realizable(w) ==
  \E i \in Cells(size) :
    /\ StartsWith(w, letters[i])
    /\ Spells(Drop(w, Len(letters[i])), i, [cells |-> {i}, simple |-> TRUE])

\* w is the concatenation of the letters of a walk through adjacent cells
\* that may come back to a cell.
Walkable(w) ==
  \E i \in Cells(size) :
    /\ StartsWith(w, letters[i])
    /\ Spells(Drop(w, Len(letters[i])), i, [cells |-> {}, simple |-> FALSE])

\* C1: completeness.  After find_words, every word of the list that some path
\* of pairwise-distinct, consecutively adjacent cells spells is in
\* found_words.
C1_Complete ==
  pc = "done" =>
    \A n \in DOMAIN words : Realizable(words[n]) => InList(words[n], found_words)

\* On a 3x3 board a word of three or more characters through a 'QU' cell was
\* found, and so was a shorter word of the list that it starts with.
C1_Witness ==
  /\ pc = "done"
  /\ size = 3
  /\ \E m, n \in DOMAIN words :
        /\ Len(words[n]) >= 3
        /\ \E k \in DOMAIN words[n] : words[n][k] = "Q"
        /\ Realizable(words[n])
        /\ InList(words[n], found_words)
        /\ words[m] # words[n]
        /\ StartsWith(words[n], words[m])
        /\ InList(words[m], found_words)

\* C2: soundness.  After find_words, every entry of found_words is a word of
\* the list and is spelled by a path of pairwise-distinct, consecutively
\* adjacent cells.
C2_Sound ==
  pc = "done" =>
    \A n \in DOMAIN found_words :
      InList(found_words[n], words) /\ Realizable(found_words[n])

\* A word of the list that only a walk revisiting a cell spells was left out,
\* while another word was found.
C2_Witness ==
  /\ pc = "done"
  /\ found_words # <<>>
  /\ \E n \in DOMAIN words :
        /\ Walkable(words[n])
        /\ ~Realizable(words[n])
        /\ ~InList(words[n], found_words)

\* C3: set semantics.  After find_words, no word occurs twice in found_words.
C3_NoDuplicates ==
  pc = "done" =>
    \A m, n \in DOMAIN found_words : found_words[m] = found_words[n] => m = n

\* C6: prefix index.  Once built, prefixes holds w[0:k] for every word w and
\* every k with 1 <= k < len(w), and every element of it is a non-empty
\* string, shorter than some word that starts with it.
C6_PrefixIndex ==
  pc \in {"search", "done"} =>
    /\ \A n \in DOMAIN words : \A k \in 1..(Len(words[n]) - 1) :
          SubSeq(words[n], 1, k) \in prefixes
    /\ \A p \in prefixes :
          /\ p # <<>>
          /\ \E n \in DOMAIN words :
                Len(p) < Len(words[n]) /\ StartsWith(words[n], p)

\* The index of a list with a word that is a strict prefix of another word
\* (it is in the index) and a word that is no such prefix (it is not).
C6_Witness ==
  /\ pc = "search"
  /\ \E m, n \in DOMAIN words :
        /\ words[m] \in prefixes
        /\ words[n] \notin prefixes
        /\ Len(words[n]) >= 3

\* The cells a king's move away from cell i of an N x N board, by rows and
\* columns.
KingMoves(i, N) ==
  LET r == i \div N
      c == i % N
  IN {(r + dr) * N + (c + dc) :
        <<dr, dc>> \in {d \in {-1, 0, 1} \X {-1, 0, 1} :
                          /\ d # <<0, 0>>
                          /\ r + d[1] \in 0..(N - 1)
                          /\ c + d[2] \in 0..(N - 1)}}

\* C4: adjacency.  The mapping _init_adjacency returns has the keys
\* 0..N*N-1; the list of cell i holds exactly the cells a king's move away,
\* none twice and never i; and the relation is symmetric.
C4_Adjacency ==
  pc = "built" =>
    /\ DOMAIN adjacency = Cells(size)
    /\ \A i \in Cells(size) :
          /\ Range(adjacency[i]) = KingMoves(i, size)
          /\ Cardinality(Range(adjacency[i])) = Len(adjacency[i])
          /\ i \notin Range(adjacency[i])
          /\ \A j \in Cells(size) :
                j \in Range(adjacency[i]) <=> i \in Range(adjacency[j])

\* The mapping of a board of size 4 or more is built: it has cells with 3, 5
\* and 8 neighbours.
C4_Witness ==
  /\ pc = "built"
  /\ size >= 4
  /\ {Len(adjacency[i]) : i \in Cells(size)} = {3, 5, 8}

\* C8: a 1x1 board.  The only cell has no neighbour, and find_words finds
\* nothing, whatever the letter of the cell, when load_words was given a
\* minimum length above 1.
C8_SingleCell ==
  (pc = "done" /\ size = 1 /\ min_len > 1) =>
    (adjacency[0] = <<>> /\ found_words = <<>>)

\* C8, amended: the same when the minimum length is above the number of
\* characters of the cell's letter (1, or 2 for 'QU').
C8_SingleCellByLetter ==
  (pc = "done" /\ size = 1 /\ min_len > Len(letters[0])) =>
    (adjacency[0] = <<>> /\ found_words = <<>>)

\* The 1x1 board 'QU' was searched for QUQU and found empty: load_words, with
\* the minimum length 3, had dropped the line of QU and kept that of QUQU.
C8_Witness ==
  /\ pc = "done"
  /\ size = 1
  /\ letters[0] = <<"Q","U">>
  /\ min_len = 3
  /\ Len(lines) = 2
  /\ words = <<Repeat(letters[0], 2)>>
  /\ found_words = <<>>

\* C5: guess validation.  A call of score_word accepts the guess (appends it
\* to the player's words and raises the score) if and only if it is in the
\* board's found_words and not yet in the player's words; any other guess
\* leaves the score and the player's words as they are.
C5_GuessValidation ==
  [][mpc = "score" /\ mpc' # "score" =>
       IF InList(guess, found_words) /\ ~InList(guess, player_found)
       THEN player_found' = Append(player_found, guess) /\ score' > score
       ELSE UNCHANGED <<score, player_found>>]_vars

\* C9: found_words is read-only.  Once find_words has set it, no step of the
\* game changes found_words (contents or order), letters or adjacency.
C9_FoundWordsFrozen ==
  [][pc = "done" => UNCHANGED <<found_words, letters, adjacency>>]_vars

\* endgame has run to its end, on a board whose found_words is not in
\* alphabetical order, after the player scored a word.
C9_Witness ==
  /\ mpc = "over"
  /\ player_found # <<>>
  /\ found_words # SortWords(found_words)

\* C10: the timer against the guess loop.  After stop in_play stays False;
\* at most one input() returns after stop; and once one has, its guess is
\* not scored: the main thread is at the test of the loop or in endgame.
C10_TimerRace ==
  /\ timer = "fired" => ~in_play
  /\ late_reads <= 1
  /\ late_reads >= 1 => mpc \in {"while", "endgame", "over", "raised"}

\* endgame has run to its end after a guess that score_word would have
\* accepted was typed once stop had run, and the score is still 0.
C10_Witness ==
  /\ mpc = "over"
  /\ late_reads = 1
  /\ InList(guess, found_words)
  /\ player_found = <<>>
  /\ score = 0

\* path is a list of pairwise-distinct cells, consecutive ones adjacent.
SimplePath(path) ==
  /\ Len(path) >= 1
  /\ \A n \in DOMAIN path : path[n] \in Cells(size)
  /\ \A m, n \in DOMAIN path : path[m] = path[n] => m = n
  /\ \A n \in 1..(Len(path) - 1) : InList(path[n + 1], adjacency[path[n]])

\* In every call of _advance_path, path is simple and has at most N*N cells,
\* and at most N*N calls are open.
C7_PathsSimple ==
  /\ Len(stack) <= size * size
  /\ \A f \in Range(stack) \cup ({call} \ {NoCall}) :
        SimplePath(f.path) /\ Len(f.path) <= size * size

\* C7: termination.  In every call of _advance_path reached from find_words
\* path is a list of pairwise-distinct, consecutively adjacent cells, no
\* longer (and the recursion no deeper) than N*N, and find_words comes to
\* its end.
C7_Terminates == []C7_PathsSimple /\ <>(pc = "done")

\* On a 2x2 board a path of all four cells is open whose prefix still is in
\* the prefix set: the loop finds every neighbour in the path.
C7_Witness ==
  /\ size = 2
  /\ Len(stack) = size * size
  /\ Len(Head(stack).path) = size * size
  /\ Head(stack).k > 1
  /\ MayAdvance(Head(stack).prefix, prefixes)

====
